---- MODULE Spec2Model ----
(***************************************************************************)
(* A model of bikeshed/datablocks.py: the data-block scanner               *)
(* (transformDataBlocks), the generic block transformer (transformPre),    *)
(* the definition-table transformers with their record parser, and the     *)
(* inline anchor ingester (transformAnchors).                              *)
(*                                                                         *)
(* A text line is a sequence of tokens.  A token is either one character   *)
(* (" ", "\t", ">", "a", "b") or one of the multi-character words the      *)
(* regular expressions of the code look for ("<pre", "</pre>", "<xmp",     *)
(* "</xmp>", "</code>", "biblio").  Every regular expression of the code   *)
(* is an operator over such lines.  Indices kept in the state (i,          *)
(* startLine, start, end) are the 0-based indices of the Python code.      *)
(***************************************************************************)
EXTENDS Integers, Sequences, FiniteSets, TLC

VARIABLES
    input,          \* the document's lines when transformDataBlocks is called
    lines,          \* doc.lines
    i,              \* loop index of the scanning loop (line 40)
    inBlock,        \* line 26
    tagName,        \* line 37
    blockType,      \* line 36
    startLine,      \* line 38
    replacements,   \* line 39
    met,            \* history: the lines as the scanning loop met them
    opened,         \* history: for each block opened, its start line and tag name
    blocks,         \* history: for each replacement, how its block closed and the line as scanned
    scanned,        \* history: doc.lines when the scanning loop ended
    k,              \* number of replacements still to apply (line 99)
    pc,             \* "scan", "apply", "done", "crashed"; "idle" when the scanner is not running
    \* transformPre
    preLines,       \* the argument lines
    preFirstLine,   \* the argument firstLine
    preLastLine,    \* lastLine (lines 112, 115)
    preBody,        \* lines when the dedent step starts (after line 113)
    preWork,        \* lines
    preAgain,       \* the dedent step applied to its own result
    prePc,          \* "entry", "body", "dedented", "returned"; "idle"
    \* the definition-table transformers
    defKind,        \* the block type: "propdef", "descdef" or "elementdef"
    defFirstLine,   \* the argument firstLine
    defLines,       \* the argument lines
    parsedAttrs,    \* parsedAttrs / vals when the schema rows are rendered
    defRequired,    \* the required keys of the schema variant the code selected
    ret,            \* the lines returned
    defPc,          \* "call", "returned"; "idle"
    \* transformAnchors
    anchorsIn,      \* anchors as json.loads gave it (line 325)
    jsonOk,         \* whether json.loads returns
    aIdx,           \* the number of anchors the loop of line 342 has gone through
    anchorKey,      \* the local variable key (line 350)
    lineBound,      \* whether the local variable line (line 381) is bound
    refs,           \* doc.refs.refs, as the sequence of the registrations made
    anchorMacros,   \* doc.refs.anchorMacros
    aPc,            \* "entry", "loop", "returned", "crashed"; "idle"
    \* the diagnostics die() reported
    errors

scanVars == <<input, lines, i, inBlock, tagName, blockType, startLine,
              replacements, met, opened, blocks, scanned, k, pc>>

preVars == <<preLines, preFirstLine, preLastLine, preBody, preWork, preAgain, prePc>>

defVars == <<defKind, defFirstLine, defLines, parsedAttrs, defRequired, ret, defPc>>

anchorVars == <<anchorsIn, jsonOk, aIdx, anchorKey, lineBound, refs, anchorMacros, aPc>>

vars == <<scanVars, preVars, defVars, anchorVars, errors>>

ScanIdle ==
    /\ input = <<>> /\ lines = <<>> /\ i = 0 /\ inBlock = FALSE /\ tagName = ""
    /\ blockType = "" /\ startLine = 0 /\ replacements = <<>> /\ met = <<>>
    /\ opened = <<>> /\ blocks = <<>> /\ scanned = <<>> /\ k = 0 /\ pc = "idle"

PreIdle ==
    /\ preLines = <<>> /\ preFirstLine = <<>> /\ preLastLine = <<>> /\ preBody = <<>>
    /\ preWork = <<>> /\ preAgain = <<>> /\ prePc = "idle"

DefIdle ==
    /\ defKind = "" /\ defFirstLine = <<>> /\ defLines = <<>> /\ parsedAttrs = <<>>
    /\ defRequired = <<>> /\ ret = <<>> /\ defPc = "idle"

AnchorsIdle ==
    /\ anchorsIn = <<>> /\ jsonOk = FALSE /\ aIdx = 0 /\ anchorKey = <<>>
    /\ lineBound = FALSE /\ refs = <<>> /\ anchorMacros = <<>> /\ aPc = "idle"

(***************************************************************************)
(* Bounds of the model.                                                    *)
(***************************************************************************)
MaxDocLines == 3
MaxLineLen == 2
MaxExtraKeys == 1
MaxAnchors == 3

(***************************************************************************)
(* Generic helpers.                                                        *)
(***************************************************************************)
SetMax(S) == CHOOSE x \in S : \A y \in S : y <= x
SetMin(S) == CHOOSE x \in S : \A y \in S : x <= y

\* Python's whitespace class \s and str.strip(), over the token alphabet.
WS == {" ", "\t", "\n"}

\* line.strip() == ""  and  re.match(r"^\s*$", line)
IsBlank(line) == \A n \in 1..Len(line) : line[n] \in WS

\* Number of tokens the leading \s* of a pattern consumes.
LeadWS(line) ==
    CHOOSE n \in 0..Len(line) :
        /\ \A m \in 1..n : line[m] \in WS
        /\ (n = Len(line) \/ line[n+1] \notin WS)

\* str.rstrip()
RStrip(line) ==
    LET keep == {n \in 1..Len(line) : line[n] \notin WS}
    IN  IF keep = {} THEN <<>> ELSE SubSeq(line, 1, SetMax(keep))

NoMatch == [ok |-> FALSE, g1 |-> <<>>, g2 |-> <<>>, g3 |-> <<>>]

OpenTok(tag) == IF tag = "pre" THEN "<pre" ELSE IF tag = "xmp" THEN "<xmp" ELSE "<"
CloseTok(tag) == IF tag = "pre" THEN "</pre>" ELSE IF tag = "xmp" THEN "</xmp>" ELSE "</>"

\* Tokens that hold the character ">" (it is their last character).
HasGT(tok) == tok \in {">", "</pre>", "</xmp>", "</code>"}

(***************************************************************************)
(* The regular expressions of transformDataBlocks.                         *)
(***************************************************************************)
\* re.match(r"\s*<(pre|xmp)(.*)", line, re.I): g1 is the tag name, g2 the rest.
OpenMatch(line) ==
    LET p == LeadWS(line) + 1
    IN  IF p <= Len(line) /\ line[p] \in {"<pre", "<xmp"}
        THEN [ok |-> TRUE,
              g1 |-> IF line[p] = "<pre" THEN "pre" ELSE "xmp",
              g2 |-> SubSeq(line, p + 1, Len(line)),
              g3 |-> <<>>]
        ELSE NoMatch

\* The block-type keyword a token holds, "" for none.  "pre" is a key of
\* blockTypes too, and the tokens "<pre" and "</pre>" hold it.
KeywordOf(tok) ==
    IF tok = "biblio" THEN "biblio"
    ELSE IF tok \in {"<pre", "</pre>"} THEN "pre"
    ELSE ""

\* re.search("|".join(blockTypes.keys()), rest): the leftmost keyword, or the
\* default "pre" of line 51.
TypeMatch(rest) ==
    LET hits == {n \in 1..Len(rest) : KeywordOf(rest[n]) # ""}
    IN  IF hits = {} THEN "pre" ELSE KeywordOf(rest[SetMin(hits)])

\* A close pattern that forgets the tag name: any close tag ends the block.
CloseMatchAnyTag(line, tag) ==
    LET hits == {n \in 1..Len(line) : line[n] \in {"</pre>", "</xmp>"}}
    IN  IF hits = {} THEN NoMatch
        ELSE LET m == SetMax(hits)
             IN  [ok |-> TRUE,
                  g1 |-> SubSeq(line, 1, m - 1),
                  g2 |-> SubSeq(line, m + 1, Len(line)),
                  g3 |-> <<>>]

\* re.match(r"(.*)</"+tagName+">(.*)", line, re.I): greedy, so the last close tag.
CloseMatch(line, tag) ==
    LET hits == {n \in 1..Len(line) : line[n] = CloseTok(tag)}
    IN  IF hits = {} THEN NoMatch
        ELSE LET m == SetMax(hits)
             IN  [ok |-> TRUE,
                  g1 |-> SubSeq(line, 1, m - 1),
                  g2 |-> SubSeq(line, m + 1, Len(line)),
                  g3 |-> <<>>]

\* re.match(r"\s*(<{0}[^>]*>)(.+)</{0}>(.*)".format(tagName), line, re.I)
\* [^>]*> stops at the first ">" character; .+ needs one character at least and
\* is greedy, so the close tag is the last one that leaves it one.
SingleLineMatch(line, tag) ==
    LET p == LeadWS(line) + 1
    IN  IF ~(p <= Len(line) /\ line[p] = OpenTok(tag)) THEN NoMatch
        ELSE LET gts == {n \in (p+1)..Len(line) : HasGT(line[n])}
             IN  IF gts = {} THEN NoMatch
                 ELSE LET j == SetMin(gts)
                          closes == {n \in (j+2)..Len(line) : line[n] = CloseTok(tag)}
                      IN  IF closes = {} THEN NoMatch
                          ELSE LET m == SetMax(closes)
                               IN  [ok |-> TRUE,
                                    g1 |-> SubSeq(line, p, j),
                                    g2 |-> SubSeq(line, j + 1, m - 1),
                                    g3 |-> SubSeq(line, m + 1, Len(line))]

(***************************************************************************)
(* transformPre                                                            *)
(***************************************************************************)
\* lines[i].replace("\t", "  ")
RECURSIVE ReplaceTabs(_)
ReplaceTabs(line) ==
    IF line = <<>> THEN <<>>
    ELSE (IF Head(line) = "\t" THEN <<" ", " ">> ELSE <<Head(line)>>)
         \o ReplaceTabs(Tail(line))

\* len(re.match(r" *", line).group(0))
LeadingSpaces(line) ==
    CHOOSE n \in 0..Len(line) :
        /\ \A m \in 1..n : line[m] = " "
        /\ (n = Len(line) \/ line[n+1] # " ")

\* The first loop (lines 121-131): tabs of the non-blank lines become two
\* spaces each; blank lines are skipped.
TabLoop(ls) ==
    [n \in 1..Len(ls) |-> IF IsBlank(ls[n]) THEN ls[n] ELSE ReplaceTabs(ls[n])]

\* The running minimum of lines 120-134; -1 stands for float("inf").
RECURSIVE IndentLoop(_, _, _)
IndentLoop(ls, n, indent) ==
    IF n > Len(ls) THEN (IF indent = -1 THEN 0 ELSE indent)
    ELSE IF IsBlank(ls[n]) THEN IndentLoop(ls, n + 1, indent)
    ELSE LET c == LeadingSpaces(ls[n])
         IN  IndentLoop(ls, n + 1, IF indent = -1 \/ c < indent THEN c ELSE indent)

\* lines[i][indent:]
DropPrefix(line, n) == SubSeq(line, n + 1, Len(line))

\* A second loop that does not skip the blank lines.
StripLoopAll(ls, indent) ==
    [n \in 1..Len(ls) |-> DropPrefix(ls[n], indent)]

\* The second loop (lines 137-140).
StripLoop(ls, indent) ==
    [n \in 1..Len(ls) |-> IF IsBlank(ls[n]) THEN ls[n] ELSE DropPrefix(ls[n], indent)]

\* The dedent step, lines 120-140.
DedentStep(ls) ==
    LET tabbed == TabLoop(ls)
    IN  StripLoop(tabbed, IndentLoop(tabbed, 1, -1))

\* re.match(r"\s*</code>\s*$", line)
IsCodeClose(line) ==
    LET p == LeadWS(line) + 1
    IN  /\ p <= Len(line)
        /\ line[p] = "</code>"
        /\ IsBlank(SubSeq(line, p + 1, Len(line)))

TransformPre(ls, tag, firstLine) ==
    IF Len(ls) = 0 THEN <<firstLine, <<CloseTok(tag)>> >>
    ELSE LET code == IsCodeClose(ls[Len(ls)])
             lastLine == IF code THEN <<"</code>", CloseTok(tag)>> ELSE <<CloseTok(tag)>>
             body == IF code THEN SubSeq(ls, 1, Len(ls) - 1) ELSE ls
         IN  IF Len(body) = 0 THEN <<firstLine, lastLine>>
             ELSE LET d == DedentStep(body)
                  IN  [d EXCEPT ![1] = RStrip(firstLine) \o d[1]] \o <<lastLine>>

\* transformBiblio hands the text to the bibliography store and deletes the block.
TransformBiblio(ls) == <<>>

\* blockTypes[blockType](lines=..., tagName=..., firstLine=..., doc=doc)
BlockTransform(type, ls, tag, firstLine) ==
    IF type = "biblio" THEN TransformBiblio(ls) ELSE TransformPre(ls, tag, firstLine)

(***************************************************************************)
(* transformDataBlocks                                                     *)
(***************************************************************************)
\* A slice assignment that takes 'end' as the last line replaced.
SliceAssignInclusive(l, s, e, v) ==
    SubSeq(l, 1, s) \o v \o SubSeq(l, (IF e < s THEN s ELSE e) + 2, Len(l))

\* doc.lines[start:end] = value
SliceAssign(l, s, e, v) ==
    SubSeq(l, 1, s) \o v \o SubSeq(l, (IF e < s THEN s ELSE e) + 1, Len(l))

\* doc.lines.insert(n, x)
Insert(l, n, x) == SubSeq(l, 1, n) \o <<x>> \o SubSeq(l, n + 1, Len(l))

\* The 'start' and 'end' of the three replacement records.
SameLineSpan(n) == [start |-> n, end |-> n]
CleanSpan(s, n) == [start |-> s, end |-> n]
\* A mixed close whose span also takes the line after the inserted one.
MixedSpanLate(s, n) == [start |-> s, end |-> n + 2]

MixedSpan(s, n) == [start |-> s, end |-> n + 1]

Rep(span, v) == [start |-> span.start, end |-> span.end, value |-> v]

\* The lines documents are made of.
LineLib ==
    { <<"a">>,
      <<" ", " ", "a">>,
      <<"\t", "b">>,
      <<"</code>">>,
      <<"<pre", ">">>,
      <<"<pre", ">", "a">>,
      <<"<pre", " ", "biblio", ">">>,
      <<"<xmp", ">">>,
      <<"</pre>">>,
      <<" ", "</pre>", "b">>,
      <<"a", "</pre>", "b">>,
      <<"a", "</pre>", "<pre", ">">>,
      <<"<pre", ">", "a", "</pre>", "b">>,
      <<"<pre", ">", " ", "a", "</pre>">>,
      <<"<pre", ">", "</pre>">> }

Docs == UNION {[1..n -> LineLib] : n \in 1..MaxDocLines}

Init ==
    /\ input \in Docs
    /\ lines = input
    /\ i = 0
    /\ inBlock = FALSE
    /\ tagName = ""
    /\ blockType = ""
    /\ startLine = 0
    /\ replacements = <<>>
    /\ met = <<>>
    /\ opened = <<>>
    /\ blocks = <<>>
    /\ scanned = <<>>
    /\ k = 0
    /\ pc = "scan"
    /\ PreIdle /\ DefIdle /\ AnchorsIdle /\ errors = <<>>

\* One iteration of the loop of line 40.
ScanLine ==
    /\ pc = "scan"
    /\ i < Len(lines)
    /\ LET line == lines[i + 1]
           om == OpenMatch(line)
           opens == om.ok /\ ~inBlock
           inBlock1 == opens \/ inBlock
           startLine1 == IF opens THEN i ELSE startLine
           tagName1 == IF opens THEN om.g1 ELSE tagName
           blockType1 == IF opens THEN TypeMatch(om.g2) ELSE blockType
           cm == CloseMatch(line, tagName1)
           sm == SingleLineMatch(line, tagName1)
       IN  /\ startLine' = startLine1
           /\ met' = Append(met, line)
           /\ opened' = IF opens THEN Append(opened, [start |-> i, tag |-> om.g1])
                                 ELSE opened
           /\ IF ~(cm.ok /\ inBlock1)
              THEN /\ inBlock' = inBlock1
                   /\ tagName' = tagName1
                   /\ blockType' = blockType1
                   /\ i' = i + 1
                   /\ UNCHANGED <<lines, replacements, blocks, pc>>
              ELSE IF startLine1 = i /\ ~sm.ok
              THEN \* match is None at line 59: the call ends with an AttributeError
                   /\ inBlock' = FALSE
                   /\ tagName' = tagName1
                   /\ blockType' = blockType1
                   /\ pc' = "crashed"
                   /\ UNCHANGED <<lines, replacements, blocks, i>>
              ELSE /\ inBlock' = FALSE
                   /\ tagName' = ""
                   /\ blockType' = ""
                   /\ i' = i + 1
                   /\ pc' = pc
                   /\ IF startLine1 = i
                      THEN /\ lines' = [lines EXCEPT ![i + 1] = sm.g3]
                           /\ replacements' = Append(replacements,
                                  Rep(SameLineSpan(i),
                                      BlockTransform(blockType1, <<sm.g2>>, tagName1, sm.g1)))
                           /\ blocks' = Append(blocks, [kind |-> "same", line |-> line])
                      ELSE IF IsBlank(cm.g1)
                      THEN /\ lines' = [lines EXCEPT ![i + 1] = cm.g2]
                           /\ replacements' = Append(replacements,
                                  Rep(CleanSpan(startLine1, i),
                                      BlockTransform(blockType1,
                                                     SubSeq(lines, startLine1 + 2, i),
                                                     tagName1, lines[startLine1 + 1])))
                           /\ blocks' = Append(blocks, [kind |-> "clean", line |-> line])
                      ELSE LET split == Insert([lines EXCEPT ![i + 1] = cm.g1], i + 1, cm.g2)
                           IN  /\ lines' = split
                               /\ replacements' = Append(replacements,
                                      Rep(MixedSpan(startLine1, i),
                                          BlockTransform(blockType1,
                                                         SubSeq(split, startLine1 + 2, i + 1),
                                                         tagName1, split[startLine1 + 1])))
                               /\ blocks' = Append(blocks, [kind |-> "mixed", line |-> line])
    /\ UNCHANGED <<input, scanned, k>>
    /\ UNCHANGED <<preVars, defVars, anchorVars, errors>>

\* The loop of line 40 runs out of lines.
EndScan ==
    /\ pc = "scan"
    /\ i >= Len(lines)
    /\ scanned' = lines
    /\ k' = Len(replacements)
    /\ pc' = "apply"
    /\ UNCHANGED <<input, lines, i, inBlock, tagName, blockType, startLine,
                   replacements, met, opened, blocks>>
    /\ UNCHANGED <<preVars, defVars, anchorVars, errors>>

\* An application order from the first replacement to the last.
ForwardOrder(left, total) == total - left + 1

\* reversed(replacements): the index of the replacement applied when 'left' of
\* the 'total' replacements are still to apply.
ReversedOrder(left, total) == left

\* One iteration of the loop of line 99, from the last replacement to the first.
ApplyReplacement ==
    /\ pc = "apply"
    /\ k > 0
    /\ LET rep == replacements[ReversedOrder(k, Len(replacements))]
       IN  lines' = SliceAssign(lines, rep.start, rep.end, rep.value)
    /\ k' = k - 1
    /\ UNCHANGED <<input, i, inBlock, tagName, blockType, startLine,
                   replacements, met, opened, blocks, scanned, pc>>
    /\ UNCHANGED <<preVars, defVars, anchorVars, errors>>

\* transformDataBlocks returns.
Return ==
    /\ pc = "apply"
    /\ k = 0
    /\ pc' = "done"
    /\ UNCHANGED <<input, lines, i, inBlock, tagName, blockType, startLine,
                   replacements, met, opened, blocks, scanned, k>>
    /\ UNCHANGED <<preVars, defVars, anchorVars, errors>>

Next == ScanLine \/ EndScan \/ ApplyReplacement \/ Return

Spec == Init /\ [][Next]_vars

(***************************************************************************)
(* transformPre, run on its own over bounded content.                      *)
(***************************************************************************)
PreAlphabet == {" ", "\t", "a"}

PreLineSet ==
    UNION {[1..n -> PreAlphabet] : n \in 0..MaxLineLen} \cup {<<"</code>">>}

\* A block's content has fewer lines than the document that holds it.
PreContents == UNION {[1..n -> PreLineSet] : n \in 1..(MaxDocLines - 1)}

InitPre ==
    /\ preLines \in PreContents
    /\ preFirstLine \in {<<"<pre", ">">>, <<"<pre", ">", "a", " ">>}
    /\ preLastLine = <<>>
    /\ preBody = <<>>
    /\ preWork = preLines
    /\ preAgain = <<>>
    /\ prePc = "entry"
    /\ ScanIdle /\ DefIdle /\ AnchorsIdle /\ errors = <<>>

\* Lines 108-118 with a last line that is a lone </code>: it moves into lastLine.
PreFoldCodeClose ==
    /\ prePc = "entry"
    /\ IsCodeClose(preLines[Len(preLines)])
    /\ preLastLine' = <<"</code>", CloseTok("pre")>>
    /\ LET body == SubSeq(preLines, 1, Len(preLines) - 1)
       IN  /\ preWork' = IF Len(body) = 0 THEN <<preFirstLine, preLastLine'>> ELSE body
           /\ preBody' = body
           /\ prePc' = IF Len(body) = 0 THEN "returned" ELSE "body"
    /\ UNCHANGED <<preLines, preFirstLine, preAgain>>
    /\ UNCHANGED <<scanVars, defVars, anchorVars, errors>>

\* Lines 108-118 otherwise.
PrePlainClose ==
    /\ prePc = "entry"
    /\ ~IsCodeClose(preLines[Len(preLines)])
    /\ preLastLine' = <<CloseTok("pre")>>
    /\ preBody' = preLines
    /\ prePc' = "body"
    /\ UNCHANGED <<preLines, preFirstLine, preWork, preAgain>>
    /\ UNCHANGED <<scanVars, defVars, anchorVars, errors>>

\* Lines 120-140.
PreDedent ==
    /\ prePc = "body"
    /\ preWork' = DedentStep(preWork)
    /\ preAgain' = DedentStep(preWork')
    /\ prePc' = "dedented"
    /\ UNCHANGED <<preLines, preFirstLine, preLastLine, preBody>>
    /\ UNCHANGED <<scanVars, defVars, anchorVars, errors>>

\* Lines 142-144.
PreSplice ==
    /\ prePc = "dedented"
    /\ preWork' = [preWork EXCEPT ![1] = RStrip(preFirstLine) \o preWork[1]]
                  \o <<preLastLine>>
    /\ prePc' = "returned"
    /\ UNCHANGED <<preLines, preFirstLine, preLastLine, preBody, preAgain>>
    /\ UNCHANGED <<scanVars, defVars, anchorVars, errors>>

NextPre == PreFoldCodeClose \/ PrePlainClose \/ PreDedent \/ PreSplice

SpecPre == InitPre /\ [][NextPre]_vars

(***************************************************************************)
(* Strings, as sequences of tokens, and insertion-ordered records.         *)
(***************************************************************************)
\* str.strip()
Strip(str) ==
    LET keep == {n \in 1..Len(str) : str[n] \notin WS}
    IN  IF keep = {} THEN <<>> ELSE SubSeq(str, SetMin(keep), SetMax(keep))

\* str.split(sep)
RECURSIVE Split(_, _)
Split(str, sep) ==
    LET hits == {n \in 1..Len(str) : str[n] = sep}
    IN  IF hits = {} THEN <<str>>
        ELSE <<SubSeq(str, 1, SetMin(hits) - 1)>>
             \o Split(SubSeq(str, SetMin(hits) + 1, Len(str)), sep)

\* sep.join(parts)
RECURSIVE Join(_, _)
Join(parts, sep) ==
    IF parts = <<>> THEN <<>>
    ELSE IF Len(parts) = 1 THEN parts[1]
    ELSE parts[1] \o sep \o Join(Tail(parts), sep)

\* "needle" in str
Contains(str, needle) == \E n \in 1..Len(str) : str[n] = needle

\* The first token of str.capitalize(), and the tokens after it.
UpperFirst(tok) ==
    IF tok = "name" THEN "Name"
    ELSE IF tok = "DOM interfaces" THEN "Dom interfaces"
    ELSE tok
LowerRest(tok) == IF tok = "DOM interfaces" THEN "dom interfaces" ELSE tok

\* str.capitalize()
Capitalize(str) ==
    [n \in 1..Len(str) |-> IF n = 1 THEN UpperFirst(str[n]) ELSE LowerRest(str[n])]

\* An OrderedDict is a sequence of [key, val]; key in d, d.get(key, dflt),
\* d[key] = val, del d[key].
Has(d, key) == \E n \in 1..Len(d) : d[n].key = key
Get(d, key, dflt) ==
    IF Has(d, key) THEN d[CHOOSE n \in 1..Len(d) : d[n].key = key].val ELSE dflt
Put(d, key, val) ==
    IF Has(d, key)
    THEN [n \in 1..Len(d) |-> IF d[n].key = key THEN [key |-> key, val |-> val] ELSE d[n]]
    ELSE Append(d, [key |-> key, val |-> val])
Del(d, key) ==
    LET Keep(e) == e.key # key IN SelectSeq(d, Keep)

\* die(msg, ...): the diagnostic is recorded and the caller goes on.
Die(errs, report) == Append(errs, report)

(***************************************************************************)
(* parseDefBlock                                                           *)
(***************************************************************************)
\* re.match(r"\s*([^:]+):\s*(\S.*)", line): g1 runs to the first colon and takes
\* one character at least, g2 starts at the first non-blank after it.
KeyValueMatch(line) ==
    LET colons == {n \in 1..Len(line) : line[n] = ":"}
    IN  IF colons = {} THEN NoMatch
        ELSE LET c == SetMin(colons)
                 lead == LeadWS(line)
                 rest == SubSeq(line, c + 1, Len(line))
             IN  IF c = 1 \/ IsBlank(rest) THEN NoMatch
                 ELSE [ok |-> TRUE,
                       g1 |-> SubSeq(line, (IF lead >= c - 1 THEN c - 2 ELSE lead) + 1, c - 1),
                       g2 |-> SubSeq(rest, LeadWS(rest) + 1, Len(rest)),
                       g3 |-> <<>>]

\* re.match(r"\s+", line)
StartsWithWS(line) == Len(line) > 0 /\ line[1] \in WS

NameOf(d) == Get(d, <<"Name">>, <<"???">>)

\* The loop of lines 284-301; lastKey is <<>> for None and <<key>> otherwise.
RECURSIVE ParseLoop(_, _, _, _, _, _)
ParseLoop(ls, n, vals, lastKey, errs, type) ==
    IF n > Len(ls) THEN [vals |-> vals, errors |-> errs]
    ELSE LET line == ls[n]
             m == KeyValueMatch(line)
             cont == lastKey # <<>> /\ (IsBlank(line) \/ StartsWithWS(line))
             key == IF m.ok THEN Capitalize(Strip(m.g1)) ELSE lastKey[1]
             val == IF m.ok THEN Strip(m.g2) ELSE Strip(line)
         IN  IF ~m.ok /\ ~cont
             THEN ParseLoop(ls, n + 1, vals, lastKey,
                            Die(errs, [msg |-> "format", block |-> type,
                                       name |-> NameOf(vals), arg |-> line]),
                            type)
             ELSE ParseLoop(ls, n + 1,
                            IF Has(vals, key)
                            THEN Put(vals, key, Get(vals, key, <<>>) \o <<"\n">> \o val)
                            ELSE Put(vals, key, val),
                            IF m.ok THEN <<key>> ELSE lastKey, errs, type)

parseDefBlock(ls, type, errs) == ParseLoop(ls, 1, <<>>, <<>>, errs, type)

(***************************************************************************)
(* transformPropdef, transformDescdef, transformElementdef                 *)
(***************************************************************************)
\* An entry of attrs: a value of None makes the key required.
Required(name) == [key |-> <<name>>, required |-> TRUE, val |-> <<>>]
Optional(name, dflt) == [key |-> <<name>>, required |-> FALSE, val |-> <<dflt>>]

KeysOf(d) == [n \in 1..Len(d) |-> d[n].key]
RequiredKeysOf(attrs) ==
    LET IsReq(e) == e.required IN KeysOf(SelectSeq(attrs, IsReq))

\* "<tr><th>{0}:<td>{1}".format(key, val) and its variants
Row(key, val) == <<"<tr><th>">> \o key \o <<":<td>">> \o val
ProdRow(key, val) == <<"<tr><th>">> \o key \o <<":<td class='prod'>">> \o val

MissingLine(block, parsed, key) ==
    [msg |-> "missing", block |-> block, name |-> NameOf(parsed), arg |-> key]

\* Lines 155-175.
PropdefAttrs(firstLine, parsed) ==
    IF Contains(firstLine, "partial") \/ Has(parsed, <<"New values">>)
    THEN [attrs |-> <<Required("Name"), Required("New values")>>,
          open |-> <<"<table class='definition propdef partial'>">>]
    ELSE IF Contains(firstLine, "shorthand")
    THEN [attrs |-> <<Required("Name"), Required("Value"),
                      Optional("Initial", "see individual properties"),
                      Optional("Applies to", "see individual properties"),
                      Optional("Inherited", "see individual properties"),
                      Optional("Percentages", "see individual properties"),
                      Optional("Media", "see individual properties"),
                      Optional("Computed value", "see individual properties"),
                      Optional("Animatable", "see individual properties")>>,
          open |-> <<"<table class='definition propdef'>">>]
    ELSE [attrs |-> <<Required("Name"), Required("Value"), Required("Initial"),
                      Optional("Applies to", "all elements"), Required("Inherited"),
                      Optional("Percentages", "n/a"), Optional("Media", "visual"),
                      Optional("Computed value", "as specified"),
                      Optional("Animatable", "no")>>,
          open |-> <<"<table class='definition propdef'>">>]

\* The rows one schema entry of transformPropdef appends (lines 180-183).
PropdefRows(key, val) ==
    IF key \in {<<"Value">>, <<"New values">>} THEN <<ProdRow(key, val)>>
    ELSE <<Row(key, val)>>

\* The rows one schema entry of transformElementdef appends (lines 255-268).
ElementdefRows(key, val) ==
    LET Dfn(x) == <<"<dfn element>">> \o Strip(x) \o <<"</dfn>">>
        Cat(x) == <<"<a dfn>">> \o Strip(x) \o <<"</a>">>
        Ifc(x) == <<"<a interface>">> \o Strip(x) \o <<"</a>">>
        parts == Split(val, ",")
    IN  IF key = <<"Name">>
        THEN << <<"<tr><th>", "Name", ":<td>">>,
                Join([n \in 1..Len(parts) |-> Dfn(parts[n])], <<", ">>) >>
        ELSE IF key = <<"Content model">>
        THEN << <<"<tr><th>">> \o key \o <<":<td>">> >> \o Split(val, "\n")
        ELSE IF key = <<"Categories">>
        THEN << <<"<tr><th>", "Categories", ":<td>">>,
                Join([n \in 1..Len(parts) |-> Cat(parts[n])], <<", ">>) >>
        ELSE IF key = <<"Dom interfaces">>
        THEN << <<"<tr><th>", "DOM Interfaces", ":<td>">>,
                Join([n \in 1..Len(parts) |-> Ifc(parts[n])], <<", ">>) >>
        ELSE <<Row(key, val)>>

\* The loop over attrs (lines 176-186 and 251-271).
RECURSIVE AttrsLoop(_, _, _, _, _, _)
AttrsLoop(block, attrs, n, parsed, out, errs) ==
    IF n > Len(attrs) THEN [ret |-> out, errors |-> errs]
    ELSE LET key == attrs[n].key
             val == IF Has(parsed, key) THEN Get(parsed, key, <<>>) ELSE attrs[n].val
         IN  IF Has(parsed, key) \/ ~attrs[n].required
             THEN AttrsLoop(block, attrs, n + 1, parsed,
                            out \o (IF block = "propdef" THEN PropdefRows(key, val)
                                    ELSE ElementdefRows(key, val)),
                            errs)
             ELSE AttrsLoop(block, attrs, n + 1, parsed, out,
                            Die(errs, MissingLine(block, parsed, key)))

\* The loop over parsedAttrs (lines 187-190 and 272-275).
RECURSIVE ExtraLoop(_, _, _, _)
ExtraLoop(attrs, parsed, n, out) ==
    IF n > Len(parsed) THEN out
    ELSE ExtraLoop(attrs, parsed, n + 1,
                   IF Has(attrs, parsed[n].key) THEN out
                   ELSE Append(out, Row(parsed[n].key, parsed[n].val)))

transformPropdef(ls, firstLine, errs) ==
    LET p == parseDefBlock(ls, "propdef", errs)
        sel == PropdefAttrs(firstLine, p.vals)
        body == AttrsLoop("propdef", sel.attrs, 1, p.vals, <<sel.open>>, p.errors)
    IN  [ret |-> Append(ExtraLoop(sel.attrs, p.vals, 1, body.ret), <<"</table>">>),
         errors |-> body.errors,
         parsed |-> p.vals,
         required |-> RequiredKeysOf(sel.attrs)]

\* Lines 224-236: the attribute groups and the attributes become one list.
ElementdefAttributes(parsed) ==
    IF ~(Has(parsed, <<"Attribute groups">>) \/ Has(parsed, <<"Attributes">>)) THEN parsed
    ELSE LET groups == Split(Get(parsed, <<"Attribute groups">>, <<>>), ",")
             atts == Split(Get(parsed, <<"Attributes">>, <<>>), ",")
             Grp(x) == <<"<li><a dfn data-element-attr-group>">> \o Strip(x) \o <<"</a>">>
             Att(x) == <<"<li><a element-attr>">> \o Strip(x) \o <<"</a>">>
             html == <<"<ul>">>
                     \o (IF Has(parsed, <<"Attribute groups">>)
                         THEN Join([n \in 1..Len(groups) |-> Grp(groups[n])], <<>>)
                         ELSE <<>>)
                     \o (IF Has(parsed, <<"Attributes">>)
                         THEN Join([n \in 1..Len(atts) |-> Att(atts[n])], <<>>)
                         ELSE <<>>)
                     \o <<"</ul>">>
         IN  Put(Del(parsed, <<"Attribute groups">>), <<"Attributes">>, html)

\* Lines 244-249.
ElementdefAttrs ==
    <<Required("Name"), Required("Categories"), Required("Contexts"),
      Required("Content model"), Required("Attributes"), Required("Dom interfaces")>>

transformElementdef(ls, errs) ==
    LET p == parseDefBlock(ls, "elementdef", errs)
        parsed == ElementdefAttributes(p.vals)
        body == AttrsLoop("elementdef", ElementdefAttrs, 1, parsed,
                          << <<"<table class='definition-table elementdef'>">> >>, p.errors)
    IN  [ret |-> Append(ExtraLoop(ElementdefAttrs, parsed, 1, body.ret), <<"</table>">>),
         errors |-> body.errors,
         parsed |-> parsed,
         required |-> RequiredKeysOf(ElementdefAttrs)]

DescdefOpen(class, vals) ==
    <<class, " data-dfn-for='">> \o Get(vals, <<"For">>, <<>>) \o <<"'>">>

\* Lines 197-205: an if, and after it an if/else that assigns requiredKeys and
\* ret again whatever the first if did.
DescdefRequired(firstLine, vals) ==
    LET first == IF Contains(firstLine, "partial") \/ Has(vals, <<"New values">>)
                 THEN [requiredKeys |-> << <<"Name">>, <<"For">> >>,
                       ret |-> DescdefOpen("<table class='definition descdef partial'", vals)]
                 ELSE [requiredKeys |-> <<>>, ret |-> <<>>]
        second == IF Contains(firstLine, "mq")
                  THEN [requiredKeys |-> << <<"Name">>, <<"For">>, <<"Value">> >>,
                        ret |-> DescdefOpen("<table class='definition descdef mq'", vals)]
                  ELSE [requiredKeys |-> << <<"Name">>, <<"For">>, <<"Value">>, <<"Initial">> >>,
                        ret |-> DescdefOpen("<table class='definition descdef'", vals)]
    IN  second

\* The loop of lines 206-215.
RECURSIVE DescdefLoop(_, _, _, _, _)
DescdefLoop(requiredKeys, n, vals, out, errs) ==
    IF n > Len(requiredKeys) THEN [ret |-> out, errors |-> errs]
    ELSE LET key == requiredKeys[n]
             val == Get(vals, key, <<>>)
         IN  IF key = <<"For">>
             THEN DescdefLoop(requiredKeys, n + 1, vals,
                      Append(out, <<"<tr><th>">> \o key \o <<":<td><a at-rule>">>
                                  \o val \o <<"</a>">>), errs)
             ELSE IF key = <<"Value">>
             THEN DescdefLoop(requiredKeys, n + 1, vals, Append(out, ProdRow(key, val)), errs)
             ELSE IF Has(vals, key)
             THEN DescdefLoop(requiredKeys, n + 1, vals, Append(out, Row(key, val)), errs)
             ELSE DescdefLoop(requiredKeys, n + 1, vals, out,
                              Die(errs, MissingLine("descdef", vals, key)))

Range(f) == {f[n] : n \in DOMAIN f}

\* vals.viewkeys() - requiredKeys is a set: the loop of line 216 meets its keys
\* in an order the language does not fix.  The orders it may take.
ExtraKeyOrders(vals, requiredKeys) ==
    LET extra == Range(KeysOf(vals)) \ Range(requiredKeys)
    IN  {o \in [1..Cardinality(extra) -> extra] : Range(o) = extra}

\* transformDescdef with the loop of line 216 taking the order 'order'.
transformDescdef(ls, firstLine, errs, order) ==
    LET p == parseDefBlock(ls, "descdef", errs)
        sel == DescdefRequired(firstLine, p.vals)
        body == DescdefLoop(sel.requiredKeys, 1, p.vals, <<sel.ret>>, p.errors)
    IN  [ret |-> body.ret
                 \o [n \in 1..Len(order) |-> Row(order[n], Get(p.vals, order[n], <<>>))]
                 \o << <<"</table>">> >>,
         errors |-> body.errors,
         parsed |-> p.vals,
         required |-> sel.requiredKeys]

(***************************************************************************)
(* The definition-table transformers, run over bounded definition blocks.  *)
(***************************************************************************)
\* The keys a block of each type may give, as written in the source line.
ExtraKeyNames == [n \in 1..MaxExtraKeys |-> <<"Extra", ToString(n)>>]

KeyUniverse(kind) ==
    IF kind = "propdef"
    THEN << <<"name">>, <<"Value">>, <<"Initial">>, <<"Inherited">>, <<"New values">>,
            <<"Applies to">> >> \o ExtraKeyNames
    ELSE IF kind = "descdef"
    THEN << <<"Name">>, <<"For">>, <<"Value">>, <<"Initial">>, <<"New values">> >>
         \o ExtraKeyNames
    ELSE << <<"Name">>, <<"Categories">>, <<"Contexts">>, <<"Content model">>,
            <<"Attributes">>, <<"Attribute groups">>, <<"DOM interfaces">> >>
         \o ExtraKeyNames

\* "key: value" source lines, one for each key of the universe chosen by 'pick'.
KeyLine(key) == <<" ">> \o key \o <<":", " ", "x", ",", " ", "y">>
RECURSIVE KeyLines(_, _, _)
KeyLines(universe, pick, n) ==
    IF n > Len(universe) THEN <<>>
    ELSE (IF n \in pick THEN <<KeyLine(universe[n])>> ELSE <<>>)
         \o KeyLines(universe, pick, n + 1)

\* What follows the key lines: nothing, a continuation line, a line that is
\* neither, or the first key of the universe again.
Tails(kind) ==
    { <<>>,
      << <<" ", " ", "more">> >>,
      << <<"oops">> >>,
      << KeyLine(KeyUniverse(kind)[1]) >> }

FirstLines(kind) ==
    IF kind = "elementdef" THEN { <<"<pre", " ", "class=", "elementdef", ">">> }
    ELSE { <<"<pre", " ", "class=", kind>> \o flags \o <<">">> :
           flags \in { <<>>, <<" ", "partial">>, <<" ", "shorthand">>, <<" ", "mq">>,
                       <<" ", "partial", " ", "mq">>, <<" ", "partial", " ", "shorthand">> } }

InitDef ==
    /\ defKind \in {"propdef", "descdef", "elementdef"}
    /\ defFirstLine \in FirstLines(defKind)
    /\ \E pick \in SUBSET (1..Len(KeyUniverse(defKind))) :
       \E tail \in Tails(defKind) :
           defLines = KeyLines(KeyUniverse(defKind), pick, 1) \o tail
    /\ parsedAttrs = <<>>
    /\ defRequired = <<>>
    /\ ret = <<>>
    /\ defPc = "call"
    /\ errors = <<>>
    /\ ScanIdle /\ PreIdle /\ AnchorsIdle

DefReturn(r) ==
    /\ ret' = r.ret
    /\ errors' = r.errors
    /\ parsedAttrs' = r.parsed
    /\ defRequired' = r.required
    /\ defPc' = "returned"
    /\ UNCHANGED <<defKind, defFirstLine, defLines>>
    /\ UNCHANGED <<scanVars, preVars, anchorVars>>

CallPropdef ==
    /\ defPc = "call"
    /\ defKind = "propdef"
    /\ DefReturn(transformPropdef(defLines, defFirstLine, errors))

CallDescdef ==
    /\ defPc = "call"
    /\ defKind = "descdef"
    /\ \E order \in ExtraKeyOrders(parseDefBlock(defLines, "descdef", errors).vals,
                                   DescdefRequired(defFirstLine,
                                       parseDefBlock(defLines, "descdef", errors).vals).requiredKeys) :
           DefReturn(transformDescdef(defLines, defFirstLine, errors, order))

CallElementdef ==
    /\ defPc = "call"
    /\ defKind = "elementdef"
    /\ DefReturn(transformElementdef(defLines, errors))

NextDef == CallPropdef \/ CallDescdef \/ CallElementdef

SpecDef == InitDef /\ [][NextDef]_vars

(***************************************************************************)
(* transformAnchors                                                        *)
(*                                                                         *)
(* A JSON value is a pair <<type, value>>: for "str" the value is the       *)
(* tokens, for "int" the tokens of its decimal form, for "bool" <<"true">>  *)
(* or <<"false">>, for "list" the values, for "dict" the [k, v] pairs.  An  *)
(* anchor is a function from its field names to such values.               *)
(***************************************************************************)
JStr(tokens) == <<"str", tokens>>
JInt(tokens) == <<"int", tokens>>
JBool(b) == <<"bool", IF b THEN <<"true">> ELSE <<"false">> >>
JList(values) == <<"list", values>>
JDict(pairs) == <<"dict", pairs>>

\* The local variable key before line 350 has bound it.
Unbound == <<"unbound", <<>> >>

TypeOf(val) == val[1]
ValueOf(val) == val[2]

\* Python's truth value
Truthy(val) ==
    IF TypeOf(val) = "bool" THEN ValueOf(val) = <<"true">>
    ELSE IF TypeOf(val) = "int" THEN ValueOf(val) # <<"0">>
    ELSE ValueOf(val) # <<>>

\* str.lower()
LowerTok(tok) == IF tok = "Term" THEN "term" ELSE IF tok = "Other" THEN "other" ELSE tok
Lower(str) == [n \in 1..Len(str) |-> LowerTok(str[n])]

\* re.sub(r'\s+', ' ', str.strip())
RECURSIVE Collapse(_)
Collapse(str) ==
    IF str = <<>> THEN <<>>
    ELSE IF Head(str) \in WS
    THEN <<" ">> \o Collapse(SubSeq(str, LeadWS(str) + 1, Len(str)))
    ELSE <<Head(str)>> \o Collapse(Tail(str))
NormalizeSpace(str) == Collapse(Strip(str))

\* config.simplifyText(text)
simplifyText(str) == <<"simplified:">> \o str

\* A plain dict as a sequence of [k, v]: d[k] = v and del d[k].
DictHas(d, key) == \E n \in 1..Len(d) : d[n].k = key
DictPut(d, key, val) ==
    IF DictHas(d, key)
    THEN [n \in 1..Len(d) |-> IF d[n].k = key THEN [k |-> key, v |-> val] ELSE d[n]]
    ELSE Append(d, [k |-> key, v |-> val])
DictDel(d, key) ==
    LET Keep(e) == e.k # key IN SelectSeq(d, Keep)

\* anchor[field] = val
SetField(anchor, field, val) ==
    [f \in DOMAIN anchor \cup {field} |-> IF f = field THEN val ELSE anchor[f]]

\* The state a run of the loop body threads through its steps: the anchor, the
\* diagnostics, and how the body went on: "ok", "skip" (a continue of the loop
\* of line 342) or "crash" (an exception leaves transformAnchors).
Step(anchor, errs, go) == [anchor |-> anchor, errors |-> errs, go |-> go]

RequiredFields == <<"linkingText", "type", "shortname", "level", "url">>

\* Lines 344-347: each missing field is reported with the key the previous
\* anchor left; the continue is that of the loop over the fields.  With key
\* not bound yet, evaluating the arguments of die raises UnboundLocalError.
CheckMandatory(anchor, key, errs) ==
    LET IsMissing(f) == f \notin DOMAIN anchor
        missing == SelectSeq(RequiredFields, IsMissing)
    IN  IF missing = <<>> THEN Step(anchor, errs, "ok")
        ELSE IF key = Unbound THEN Step(anchor, errs, "crash")
        ELSE Step(anchor,
                  errs \o [n \in 1..Len(missing) |->
                              [msg |-> "missing field", key |-> key, arg |-> <<missing[n]>>]],
                  "ok")

\* Lines 348-349.
DefaultFor(anchor) ==
    IF "for" \in DOMAIN anchor THEN anchor ELSE SetField(anchor, "for", JList(<<>>))

\* Line 350: the values key may take; none when the line raises (KeyError,
\* IndexError, TypeError).  list(d)[0] of a dict is the key it iterates first,
\* which the language does not fix.
KeysOfAnchor(anchor) ==
    IF "linkingText" \notin DOMAIN anchor THEN {}
    ELSE LET lt == anchor["linkingText"]
         IN  IF TypeOf(lt) = "str" THEN {lt}
             ELSE IF TypeOf(lt) = "list" THEN (IF ValueOf(lt) = <<>> THEN {} ELSE {ValueOf(lt)[1]})
             ELSE IF TypeOf(lt) = "dict" THEN {JStr(ValueOf(lt)[n].k) : n \in 1..Len(ValueOf(lt))}
             ELSE {}

\* checkTypes(anchor, key, field, *types), lines 330-340
checkTypes(anchor, field, types) ==
    field \notin DOMAIN anchor \/ TypeOf(anchor[field]) \in types

TypeError(key, field, val) ==
    [msg |-> "wrong type", key |-> key, arg |-> <<field>>]

\* Lines 352-355, for the fields from the n-th on.  A missing field passes
\* checkTypes and anchor[field] then raises KeyError.
RECURSIVE StringFields(_, _, _, _, _)
StringFields(fields, n, anchor, key, errs) ==
    IF n > Len(fields) THEN Step(anchor, errs, "ok")
    ELSE LET field == fields[n]
         IN  IF ~checkTypes(anchor, field, {"str"})
             THEN StringFields(fields, n + 1, anchor, key,
                               Die(errs, TypeError(key, field, anchor[field])))
             ELSE IF field \notin DOMAIN anchor THEN Step(anchor, errs, "crash")
             ELSE StringFields(fields, n + 1,
                               SetField(anchor, field,
                                        JStr(Strip(ValueOf(anchor[field])) \o <<"\n">>)),
                               key, errs)

\* Lines 356-364.  The value compared with "current\n" is the one the JSON
\* gave, not the trimmed one.
StatusField(anchor, key, errs) ==
    IF "status" \notin DOMAIN anchor
    THEN Step(SetField(anchor, "status", JStr(<<"local">>)), errs, "ok")
    ELSE IF TypeOf(anchor["status"]) # "str" THEN Step(anchor, errs, "crash")
    ELSE IF Strip(ValueOf(anchor["status"])) \notin {<<"current">>, <<"dated">>, <<"local">>}
    THEN Step(anchor,
              Die(errs, [msg |-> "status", key |-> key, arg |-> Strip(ValueOf(anchor["status"]))]),
              "skip")
    ELSE Step(SetField(anchor, "status",
                       IF ValueOf(anchor["status"]) = <<"current", "\n">> THEN JStr(<<"ED", "\n">>)
                       ELSE JStr(<<"TR", "\n">>)),
              errs, "ok")

\* Lines 366-369.
LevelField(anchor, key, errs) ==
    IF ~checkTypes(anchor, "level", {"str", "int"})
    THEN Step(anchor, Die(errs, TypeError(key, "level", anchor["level"])), "ok")
    ELSE IF "level" \notin DOMAIN anchor THEN Step(anchor, errs, "crash")
    ELSE Step(SetField(anchor, "level", JStr(Strip(ValueOf(anchor["level"])) \o <<"\n">>)),
              errs, "ok")

\* Lines 370-371.  str.strip of a value that is no string raises.
SpecAndExport(anchor, errs) ==
    IF TypeOf(anchor["shortname"]) # "str" \/ TypeOf(anchor["level"]) # "str"
    THEN Step(anchor, errs, "crash")
    ELSE Step(SetField(SetField(anchor, "spec",
                                JStr(Strip(ValueOf(anchor["shortname"])) \o <<"-">>
                                    \o Strip(ValueOf(anchor["level"])) \o <<"\n">>)),
                       "export", JBool(TRUE)),
              errs, "ok")

\* Lines 381-385: the entries of a list, from the n-th on.
RECURSIVE ListEntries(_, _, _, _, _)
ListEntries(items, n, key, field, errs) ==
    IF n > Len(items) THEN [out |-> items, errors |-> errs]
    ELSE IF TypeOf(items[n]) # "str"
    THEN ListEntries(items, n + 1, key, field,
                     Die(errs, [msg |-> "entry type", key |-> key, arg |-> <<field>>]))
    ELSE ListEntries([items EXCEPT ![n] = JStr(NormalizeSpace(ValueOf(items[n])) \o <<"\n">>)],
                     n + 1, key, field, errs)

\* Lines 387-393: the pairs anchor[field].items() gave, from the n-th on,
\* applied to the dict d.  The report of line 389 reads the variable line of
\* the loop of line 381, and raises UnboundLocalError when no list has been
\* gone through yet (bound is false).
RECURSIVE DictEntries(_, _, _, _, _, _, _)
DictEntries(items, n, d, key, field, errs, bound) ==
    IF n > Len(items) THEN [out |-> d, errors |-> errs, go |-> "ok"]
    ELSE IF TypeOf(items[n].v) # "str"
    THEN IF ~bound THEN [out |-> d, errors |-> errs, go |-> "crash"]
         ELSE DictEntries(items, n + 1, d, key, field,
                          Die(errs, [msg |-> "entry type", key |-> key, arg |-> <<field>>]),
                          bound)
    ELSE LET fixedText == NormalizeSpace(items[n].k) \o <<"\n">>
         IN  DictEntries(items, n + 1,
                         DictDel(DictPut(d, fixedText, items[n].v), items[n].k),
                         key, field, errs, bound)

\* Lines 373-393, for the fields from the n-th on; bound tells whether the
\* variable line is bound.
RECURSIVE TextFields(_, _, _, _, _, _)
TextFields(fields, n, anchor, key, errs, bound) ==
    IF n > Len(fields) THEN [anchor |-> anchor, errors |-> errs, go |-> "ok", line |-> bound]
    ELSE LET field == fields[n]
         IN  IF field \notin DOMAIN anchor
             THEN TextFields(fields, n + 1, anchor, key, errs, bound)
             ELSE IF ~checkTypes(anchor, field, {"str", "list", "dict"})
             THEN TextFields(fields, n + 1, anchor, key,
                             Die(errs, TypeError(key, field, anchor[field])), bound)
             ELSE IF TypeOf(anchor[field]) = "dict"
             THEN LET r == DictEntries(ValueOf(anchor[field]), 1, ValueOf(anchor[field]), key, field,
                                       errs, bound)
                  IN  IF r.go = "crash"
                      THEN [anchor |-> anchor, errors |-> r.errors, go |-> "crash",
                            line |-> bound]
                      ELSE TextFields(fields, n + 1, SetField(anchor, field, JDict(r.out)),
                                      key, r.errors, bound)
             ELSE LET items == IF TypeOf(anchor[field]) = "str" THEN <<anchor[field]>>
                               ELSE ValueOf(anchor[field])
                      r == ListEntries(items, 1, key, field, errs)
                  IN  TextFields(fields, n + 1, SetField(anchor, field, JList(r.out)),
                                 key, r.errors, bound \/ items # <<>>)

\* Lines 348-393 for one anchor, key already taken from it at line 350.
Normalize(anchor, key, errs, bound) ==
    LET s1 == StringFields(<<"type", "shortname", "url">>, 1, DefaultFor(anchor), key, errs)
        s2 == StatusField(s1.anchor, key, s1.errors)
        s3 == LevelField(s2.anchor, key, s2.errors)
        s4 == SpecAndExport(s3.anchor, s3.errors)
        s5 == TextFields(<<"linkingText", "for">>, 1, s4.anchor, key, s4.errors, bound)
        Unbranched(s) == [anchor |-> s.anchor, errors |-> s.errors, go |-> s.go,
                          line |-> bound]
    IN  IF s1.go # "ok" THEN Unbranched(s1)
        ELSE IF s2.go # "ok" THEN Unbranched(s2)
        ELSE IF s3.go # "ok" THEN Unbranched(s3)
        ELSE IF s4.go # "ok" THEN Unbranched(s4)
        ELSE s5

\* The texts the loops of lines 401, 407 and 416 go through, with the suffix of
\* each for a macro whose linkingText is a dict.
TextsOf(anchor) ==
    LET lt == anchor["linkingText"]
    IN  IF TypeOf(lt) = "dict"
        THEN [n \in 1..Len(ValueOf(lt)) |-> [text |-> JStr(ValueOf(lt)[n].k), suffix |-> ValueOf(lt)[n].v]]
        ELSE [n \in 1..Len(ValueOf(lt)) |-> [text |-> ValueOf(lt)[n], suffix |-> JStr(<<>>)]]

IsMacro(anchor) == "anchor macro" \in DOMAIN anchor /\ Truthy(anchor["anchor macro"])

\* Lines 396-417 raise when a text is no string (str.lower, simplifyText) or,
\* for a macro, when the url or a suffix is none (the concatenation).
CanRegister(anchor) ==
    /\ TypeOf(anchor["linkingText"]) \in {"list", "dict"}
    /\ \A n \in 1..Len(TextsOf(anchor)) : TypeOf(TextsOf(anchor)[n].text) = "str"
    /\ IsMacro(anchor) =>
          /\ TypeOf(anchor["url"]) = "str"
          /\ \A n \in 1..Len(TextsOf(anchor)) : TypeOf(TextsOf(anchor)[n].suffix) = "str"

\* clone['url'] of lines 403 and 409
MacroUrl(anchor, entry) ==
    IF TypeOf(anchor["linkingText"]) = "dict"
    THEN JStr(ValueOf(anchor["url"]) \o ValueOf(entry.suffix))
    ELSE JStr(ValueOf(anchor["url"]) \o simplifyText(ValueOf(entry.text)))

\* doc.refs.refs[text.lower()].append(...) for every text (lines 401-410 and
\* 416-417); src is the index of the descriptor in the array, kept as history.
Registrations(anchor, src) ==
    LET texts == TextsOf(anchor)
    IN  [n \in 1..Len(texts) |->
            [key |-> Lower(ValueOf(texts[n].text)),
             anchor |-> IF IsMacro(anchor)
                        THEN SetField(anchor, "url", MacroUrl(anchor, texts[n]))
                        ELSE anchor,
             src |-> src]]

\* Lines 413-414.
StashMacro(macros, anchor) ==
    DictPut(DictPut(macros, ValueOf(anchor["spec"]), anchor), ValueOf(anchor["shortname"]), anchor)

\* The registrations of lines 401-410 and 416-417 made before a text that
\* raises: the length of the prefix of texts that register.
RECURSIVE GoodPrefix(_, _)
GoodPrefix(anchor, n) ==
    LET texts == TextsOf(anchor)
    IN  IF n > Len(texts) THEN n - 1
        ELSE IF TypeOf(texts[n].text) # "str" THEN n - 1
        ELSE IF IsMacro(anchor) /\ (TypeOf(anchor["url"]) # "str" \/ TypeOf(texts[n].suffix) # "str")
        THEN n - 1
        ELSE GoodPrefix(anchor, n + 1)

(***************************************************************************)
(* The anchors blocks transformAnchors is run on                           *)
(***************************************************************************)
\* The linking text of the descriptor at position p, with white space to trim
\* and to collapse.
Term(p) == <<" ", "Term", " ", "\t", ToString(p)>>

Descriptor(p) ==
    [f \in {"linkingText", "type", "shortname", "level", "url"} |->
        IF f = "linkingText" THEN JStr(Term(p))
        ELSE IF f = "type" THEN JStr(<<"dfn">>)
        ELSE IF f = "shortname" THEN JStr(<<"css-foo">>)
        ELSE IF f = "level" THEN JStr(<<"1">>)
        ELSE JStr(<<" ", "spec.html">>)]

Without(anchor, field) == [f \in DOMAIN anchor \ {field} |-> anchor[f]]

MacroOf(anchor) == SetField(anchor, "anchor macro", JBool(TRUE))

StatusValues == {<<"current">>, <<"dated">>, <<"local">>, <<"bogus">>, <<"current", "\n">>}

\* The descriptors tried at position p: the plain one, one lacking a required
\* field, one with a status, macros and linking texts of every shape, and
\* values of a type the field does not take.
Descriptors(p) ==
    {Descriptor(p)}
    \cup {Without(Descriptor(p), RequiredFields[n]) : n \in 1..Len(RequiredFields)}
    \cup {SetField(Descriptor(p), "status", JStr(s)) : s \in StatusValues}
    \cup {MacroOf(SetField(Descriptor(p), "linkingText",
                           JDict(<<[k |-> Term(p), v |-> JStr(<<"#bar">>)]>>))),
          MacroOf(SetField(Descriptor(p), "linkingText", JList(<<JStr(Term(p))>>))),
          MacroOf(SetField(Descriptor(p), "linkingText",
                           JDict(<<[k |-> Term(p), v |-> JInt(<<"1">>)]>>))),
          SetField(Descriptor(p), "linkingText",
                   JDict(<<[k |-> Term(p), v |-> JInt(<<"1">>)]>>)),
          SetField(Descriptor(p), "linkingText",
                   JList(<<JStr(Term(p)), JStr(<<"Other", " ", ToString(p)>>)>>)),
          SetField(Descriptor(p), "level", JInt(<<"1">>)),
          SetField(Descriptor(p), "type", JInt(<<"1">>))}

\* The arrays of len descriptors, the p-th one of Descriptors(p)
RECURSIVE ArraysOfLen(_)
ArraysOfLen(len) ==
    IF len = 0 THEN {<<>>}
    ELSE {Append(arr, d) : arr \in ArraysOfLen(len - 1), d \in Descriptors(len)}

InitAnchors ==
    /\ \/ jsonOk = TRUE /\ \E len \in 1..MaxAnchors : anchorsIn \in ArraysOfLen(len)
       \/ jsonOk = FALSE /\ anchorsIn = <<>>
    /\ aIdx = 0
    /\ anchorKey = Unbound
    /\ lineBound = FALSE
    /\ refs = <<>>
    /\ anchorMacros = <<>>
    /\ aPc = "entry"
    /\ errors = <<>>
    /\ ScanIdle /\ PreIdle /\ DefIdle

\* Lines 324-328: json.loads raises.
JsonParseError ==
    /\ aPc = "entry"
    /\ ~jsonOk
    /\ errors' = Die(errors, [msg |-> "JSON parse error", key |-> Unbound, arg |-> <<>>])
    /\ aPc' = "returned"
    /\ UNCHANGED <<anchorsIn, jsonOk, aIdx, anchorKey, lineBound, refs, anchorMacros>>
    /\ UNCHANGED <<scanVars, preVars, defVars>>

\* Line 325: json.loads gives the array.
JsonLoaded ==
    /\ aPc = "entry"
    /\ jsonOk
    /\ aPc' = "loop"
    /\ UNCHANGED <<anchorsIn, jsonOk, aIdx, anchorKey, lineBound, refs, anchorMacros>>
    /\ UNCHANGED <<scanVars, preVars, defVars, errors>>

\* Lines 342-417: the body of the loop for the anchor at index aIdx.
IngestAnchor ==
    /\ aPc = "loop"
    /\ aIdx < Len(anchorsIn)
    /\ LET anchor == anchorsIn[aIdx + 1]
           m == CheckMandatory(anchor, anchorKey, errors)
       IN  IF m.go = "crash" \/ KeysOfAnchor(anchor) = {}
           THEN /\ aPc' = "crashed"
                /\ errors' = m.errors
                /\ UNCHANGED <<aIdx, anchorKey, lineBound, refs, anchorMacros>>
           ELSE \E newKey \in KeysOfAnchor(anchor) :
                  LET r == Normalize(anchor, newKey, m.errors, lineBound)
                  IN  /\ anchorKey' = newKey
                      /\ errors' = r.errors
                      /\ lineBound' = r.line
                      /\ IF r.go = "crash"
                         THEN /\ aPc' = "crashed"
                              /\ UNCHANGED <<aIdx, refs, anchorMacros>>
                         ELSE IF r.go = "skip"
                         THEN /\ aIdx' = aIdx + 1
                              /\ UNCHANGED <<aPc, refs, anchorMacros>>
                         ELSE IF ~CanRegister(r.anchor)
                         THEN /\ aPc' = "crashed"
                              /\ refs' = refs \o SubSeq(Registrations(r.anchor, aIdx + 1),
                                                        1, GoodPrefix(r.anchor, 1))
                              /\ UNCHANGED <<aIdx, anchorMacros>>
                         ELSE /\ refs' = refs \o Registrations(r.anchor, aIdx + 1)
                              /\ anchorMacros' = IF IsMacro(r.anchor)
                                                 THEN StashMacro(anchorMacros, r.anchor)
                                                 ELSE anchorMacros
                              /\ aIdx' = aIdx + 1
                              /\ UNCHANGED aPc
    /\ UNCHANGED <<anchorsIn, jsonOk>>
    /\ UNCHANGED <<scanVars, preVars, defVars>>

\* Line 419.
AnchorsReturn ==
    /\ aPc = "loop"
    /\ aIdx = Len(anchorsIn)
    /\ aPc' = "returned"
    /\ UNCHANGED <<anchorsIn, jsonOk, aIdx, anchorKey, lineBound, refs, anchorMacros>>
    /\ UNCHANGED <<scanVars, preVars, defVars, errors>>

NextAnchors == JsonParseError \/ JsonLoaded \/ IngestAnchor \/ AnchorsReturn

SpecAnchors == InitAnchors /\ [][NextAnchors]_vars

(***************************************************************************)
(* Properties of transformPre.                                             *)
(***************************************************************************)
\* The non-blank lines of the content the dedent step starts from.
NonBlank == {n \in 1..Len(preBody) : ~IsBlank(preBody[n])}

\* The common indentation L of C9: the least count of leading spaces over the
\* non-blank lines, each tab replaced by two spaces; 0 when every line is blank.
CommonIndent ==
    IF NonBlank = {} THEN 0
    ELSE SetMin({LeadingSpaces(ReplaceTabs(preBody[n])) : n \in NonBlank})

\* C9: after the dedent step every non-blank line has lost exactly its first L
\* characters, all of them spaces, every blank line is as it was, the least
\* indentation of the non-blank lines is 0, and the dedent step applied to its
\* own result changes nothing.
C9_DedentRemovesCommonIndent ==
    prePc = "dedented" =>
        /\ Len(preWork) = Len(preBody)
        /\ \A n \in 1..Len(preBody) :
               IF n \in NonBlank
               THEN LET t == ReplaceTabs(preBody[n])
                    IN  /\ Len(preWork[n]) = Len(t) - CommonIndent
                        /\ \A m \in 1..CommonIndent : t[m] = " "
                        /\ \A m \in 1..Len(preWork[n]) : preWork[n][m] = t[m + CommonIndent]
               ELSE preWork[n] = preBody[n]
        /\ NonBlank # {} => \E n \in NonBlank : LeadingSpaces(preWork[n]) = 0
        /\ preAgain = preWork

\* A dedented content of common indentation 2 with a tab-indented line and a
\* blank line of spaces.
C9_Witness ==
    /\ prePc = "dedented"
    /\ CommonIndent = 2
    /\ \E n \in NonBlank : preBody[n][1] = "\t"
    /\ \E n \in 1..Len(preBody) : n \notin NonBlank /\ Len(preBody[n]) > 0

(***************************************************************************)
(* Properties of the definition-table transformers.                        *)
(***************************************************************************)
\* The table returned has a row headed by field f.
HasRow(f) ==
    LET label == IF f = <<"Dom interfaces">> THEN <<"DOM Interfaces">> ELSE f
    IN  \E n \in 1..Len(ret) :
            /\ Len(ret[n]) >= Len(label) + 2
            /\ SubSeq(ret[n], 1, Len(label) + 1) = <<"<tr><th>">> \o label
            /\ ret[n][Len(label) + 2] \in {":<td>", ":<td class='prod'>", ":<td><a at-rule>"}

\* The reports that field f is missing, each naming the record's Name or "???".
MissingReports(f) ==
    {n \in 1..Len(errors) : errors[n].msg = "missing" /\ errors[n].arg = f}

\* C6: when a definition-table transformer has returned, every required field
\* of the schema variant it selected that the parsed record lacks has exactly
\* one report, naming the record's Name or "???", and no row; every required
\* field the record holds has no report; and every key of the record has a row.
C6_MissingRequiredFieldReportedAndOmitted ==
    defPc = "returned" =>
        /\ \A n \in 1..Len(defRequired) :
               LET f == defRequired[n]
               IN  IF Has(parsedAttrs, f)
                   THEN MissingReports(f) = {}
                   ELSE /\ Cardinality(MissingReports(f)) = 1
                        /\ \A e \in MissingReports(f) :
                               errors[e].name = NameOf(parsedAttrs)
                        /\ ~HasRow(f)
        /\ \A n \in 1..Len(parsedAttrs) : HasRow(parsedAttrs[n].key)

\* C7: when transformDescdef has returned, the required keys it selected are
\* those of the table: Name and For when the first line holds "partial" or the
\* record has "New values" (and then an absent Value or Initial has neither a
\* row nor a report), else Name, For, Value when the first line holds "mq",
\* else Name, For, Value, Initial.
C7_DescdefVariantAsTabled ==
    (defPc = "returned" /\ defKind = "descdef") =>
        LET partial == Contains(defFirstLine, "partial")
                       \/ Has(parsedAttrs, <<"New values">>)
        IN  /\ defRequired =
                   IF partial THEN << <<"Name">>, <<"For">> >>
                   ELSE IF Contains(defFirstLine, "mq")
                   THEN << <<"Name">>, <<"For">>, <<"Value">> >>
                   ELSE << <<"Name">>, <<"For">>, <<"Value">>, <<"Initial">> >>
            /\ partial =>
                   \A f \in { <<"Value">>, <<"Initial">> } :
                       ~Has(parsedAttrs, f) => (~HasRow(f) /\ MissingReports(f) = {})

(***************************************************************************)
(* Properties of transformDataBlocks.                                      *)
(***************************************************************************)
\* The change of the document's length that replacement r makes.
Delta(r) == Len(r.value) - (r.end - r.start)

\* The sum of the length changes of the first n replacements.
RECURSIVE Shift(_)
Shift(n) == IF n = 0 THEN 0 ELSE Shift(n - 1) + Delta(replacements[n])

\* The 0-based place in the final document of the line that replacement n + 1
\* (or the end of the document) finds at 0-based index q of the scanned buffer.
FinalAt(q, n) == lines[q + Shift(n) + 1]

\* C1: when transformDataBlocks has returned, every block that opened and closed
\* on one line <tag ...>content</tag>X (content not empty) stands in the final
\* document as the output of its transformer for the content [content], followed
\* at once by one line holding X; and the lines between it and the neighbouring
\* replacements are those of the scanned buffer, so that a document whose only
\* block it is keeps every other input line.
C1_SameLineBlockKeepsTrailingText ==
    pc = "done" =>
        \A n \in 1..Len(replacements) :
            blocks[n].kind = "same" =>
                LET r == replacements[n]
                    ln == blocks[n].line
                    tag == OpenMatch(ln).g1
                    parts == SingleLineMatch(ln, tag)
                    out == BlockTransform(TypeMatch(OpenMatch(ln).g2), <<parts.g2>>,
                                          tag, parts.g1)
                    pos == r.start + Shift(n - 1)
                    prevEnd == IF n = 1 THEN 0 ELSE replacements[n - 1].end
                    nextStart == IF n = Len(replacements) THEN Len(scanned)
                                 ELSE replacements[n + 1].start
                IN  /\ parts.ok /\ Len(parts.g2) > 0
                    /\ r.value = out
                    /\ Len(lines) = Len(scanned) + Shift(Len(replacements))
                    /\ SubSeq(lines, pos + 1, pos + Len(out)) = out
                    /\ lines[pos + Len(out) + 1] = parts.g3
                    /\ \A q \in prevEnd..(r.start - 1) : FinalAt(q, n - 1) = scanned[q + 1]
                    /\ \A q \in (r.start + 1)..(nextStart - 1) : FinalAt(q, n) = scanned[q + 1]
                    /\ Len(replacements) = 1 =>
                           lines = SubSeq(input, 1, r.start) \o out \o <<parts.g3>>
                                   \o SubSeq(input, r.start + 2, Len(input))

\* A same-line block with trailing text, between two other lines, has been replaced.
C1_Witness ==
    /\ pc = "done"
    /\ \E n \in 1..Len(replacements) :
           /\ blocks[n].kind = "same"
           /\ SingleLineMatch(blocks[n].line, "pre").g3 = <<"b">>
           /\ replacements[n].start = 1
           /\ Len(input) = 3

\* The replacements applied from the first to the last, the start and end of
\* those not yet applied moved by the length change of each applied one.
RECURSIVE TopDown(_, _, _)
TopDown(l, reps, moved) ==
    IF reps = <<>> THEN l
    ELSE LET r == Head(reps)
         IN  TopDown(SubSeq(l, 1, r.start + moved) \o r.value
                         \o SubSeq(l, r.end + moved + 1, Len(l)),
                     Tail(reps), moved + Delta(r))

\* C2: when transformDataBlocks has returned, the document it made by applying the
\* replacements from the last to the first is the document that applying them
\* from the first to the last, with the offsets moved, makes of the scanned buffer.
C2_BottomUpEqualsTopDown ==
    pc = "done" => lines = TopDown(scanned, replacements, 0)

\* Two replacements of different length changes, the first of a mixed close.
C2_Witness ==
    /\ pc = "done"
    /\ Len(replacements) >= 2
    /\ blocks[1].kind = "mixed"
    /\ Delta(replacements[1]) # 0
    /\ Delta(replacements[2]) # Delta(replacements[1])

\* C3 as the specification states it: start and end are inclusive line indices
\* and consecutive replacements do not overlap, r.start <= r.end < r'.start.
C3_InclusiveSpansDisjoint ==
    /\ \A n \in 1..Len(replacements) : replacements[n].start <= replacements[n].end
    /\ \A n \in 1..(Len(replacements) - 1) :
           replacements[n].end < replacements[n + 1].start

\* C3 amended: the replacements are in strictly ascending start order and, with
\* end read as the index after the last line replaced (the slice of line 100),
\* do not overlap: r.start <= r.end <= r'.start and r.start < r'.start.
C3_SpansAscendingDisjoint ==
    /\ \A n \in 1..Len(replacements) : replacements[n].start <= replacements[n].end
    /\ \A n \in 1..(Len(replacements) - 1) :
           /\ replacements[n].end <= replacements[n + 1].start
           /\ replacements[n].start < replacements[n + 1].start

\* The line a mixed close inserted opened the next block, which closed too.
C3_Witness ==
    /\ Len(replacements) >= 2
    /\ blocks[1].kind = "mixed"
    /\ replacements[1].end = replacements[2].start

\* line is a suffix of whole
IsSuffix(line, whole) ==
    /\ Len(line) <= Len(whole)
    /\ line = SubSeq(whole, Len(whole) - Len(line) + 1, Len(whole))

AnchorsEnded == aPc \in {"returned", "crashed"}

LacksRequired(d) == \E n \in 1..Len(RequiredFields) : RequiredFields[n] \notin DOMAIN d

AllowedStatus == {<<"current">>, <<"dated">>, <<"local">>}

\* A descriptor every field of which is present where required and of a type
\* and a value the anchor data model allows.
WellFormed(d) ==
    /\ ~LacksRequired(d)
    /\ TypeOf(d["type"]) = "str" /\ TypeOf(d["shortname"]) = "str" /\ TypeOf(d["url"]) = "str"
    /\ TypeOf(d["level"]) \in {"str", "int"}
    /\ \/ TypeOf(d["linkingText"]) = "str"
       \/ /\ TypeOf(d["linkingText"]) = "list"
          /\ ValueOf(d["linkingText"]) # <<>>
          /\ \A n \in 1..Len(ValueOf(d["linkingText"])) : TypeOf(ValueOf(d["linkingText"])[n]) = "str"
       \/ /\ TypeOf(d["linkingText"]) = "dict"
          /\ ValueOf(d["linkingText"]) # <<>>
          /\ \A n \in 1..Len(ValueOf(d["linkingText"])) : TypeOf(ValueOf(d["linkingText"])[n].v) = "str"
    /\ "status" \in DOMAIN d =>
          TypeOf(d["status"]) = "str" /\ Strip(ValueOf(d["status"])) \in AllowedStatus

\* The descriptor at position p (from 1) made a registration.
RegisteredFrom(p) == \E n \in 1..Len(refs) : refs[n].src = p

\* C4: when the run of transformAnchors has ended on an array in which one
\* descriptor lacks a required field and every other one is well-formed, it
\* has returned, exactly one error has been reported and it is keyed by the
\* first linking text of the faulty descriptor (when it has one), the faulty
\* descriptor made no registration and every other descriptor made one.
C4_OneMissingFieldOneErrorOthersRegistered ==
    \A p \in 1..Len(anchorsIn) :
        (/\ AnchorsEnded
         /\ LacksRequired(anchorsIn[p])
         /\ \A q \in 1..Len(anchorsIn) : q # p => WellFormed(anchorsIn[q]))
        => /\ aPc = "returned"
           /\ Len(errors) = 1
           /\ KeysOfAnchor(anchorsIn[p]) # {} => errors[1].key \in KeysOfAnchor(anchorsIn[p])
           /\ ~RegisteredFrom(p)
           /\ \A q \in 1..Len(anchorsIn) : q # p => RegisteredFrom(q)

\* C5: every well-formed anchor macro the loop has gone through, whose
\* linkingText maps terms to suffixes, has for each entry a registration under
\* exactly the lowercased, whitespace-normalized term with, as url, exactly the
\* trimmed url of the descriptor followed by the suffix; and the macro index
\* has an entry under the spec id (shortname, "-", level) and one under the
\* shortname.
C5_MacroCloneKeyAndUrl ==
    \A p \in 1..aIdx :
        LET d == anchorsIn[p]
        IN  (IsMacro(d) /\ WellFormed(d) /\ TypeOf(d["linkingText"]) = "dict")
            => /\ \A e \in 1..Len(ValueOf(d["linkingText"])) :
                      \E n \in 1..Len(refs) :
                          /\ refs[n].src = p
                          /\ refs[n].key = Lower(NormalizeSpace(ValueOf(d["linkingText"])[e].k))
                          /\ refs[n].anchor["url"] =
                                 JStr(Strip(ValueOf(d["url"])) \o ValueOf(ValueOf(d["linkingText"])[e].v))
               /\ DictHas(anchorMacros, Strip(ValueOf(d["shortname"])) \o <<"-">> \o Strip(ValueOf(d["level"])))
               /\ DictHas(anchorMacros, Strip(ValueOf(d["shortname"])))

\* The status the anchor data model gives a registered descriptor.
StoredStatusOf(d) ==
    IF "status" \notin DOMAIN d THEN <<"local">>
    ELSE IF Strip(ValueOf(d["status"])) = <<"current">> THEN <<"ED">>
    ELSE IF Strip(ValueOf(d["status"])) = <<"dated">> THEN <<"TR">>
    ELSE <<"local">>

\* C8: every registration holds, as status (a line end apart), ED for an input
\* status "current", TR for "dated", local for "local" and for no status; a
\* descriptor the loop has gone through whose status is any other value was
\* reported and made no registration, and the well-formed descriptors the loop
\* went through after it made theirs.
C8_StoredStatusFollowsInput ==
    /\ \A n \in 1..Len(refs) :
           /\ TypeOf(refs[n].anchor["status"]) = "str"
           /\ Strip(ValueOf(refs[n].anchor["status"])) = StoredStatusOf(anchorsIn[refs[n].src])
    /\ \A p \in 1..aIdx :
           ("status" \in DOMAIN anchorsIn[p] /\ ~WellFormed(anchorsIn[p])
                /\ WellFormed(Without(anchorsIn[p], "status")))
           => /\ ~RegisteredFrom(p)
              /\ \E n \in 1..Len(errors) : errors[n].msg = "status"
              /\ \A q \in (p + 1)..aIdx : WellFormed(anchorsIn[q]) => RegisteredFrom(q)

=============================================================================
